---- MODULE Spec2Model ----
(***************************************************************************)
(* Model of the caddy-dnslink handler (src/dnslink.go): the DNSLink        *)
(* resolution cache (resolve), the routing decision and path rewrite of    *)
(* ServeHTTP, and Provision.                                               *)
(*                                                                         *)
(* Strings are sequences of one-character strings, so that prefixes,       *)
(* suffixes and concatenation are computed as the Go code computes them.   *)
(* Time is an integer clock; one unit is 30 seconds.                       *)
(***************************************************************************)
EXTENDS Integers, Sequences, FiniteSets, TLC

VARIABLES
    Upstreams,     \* DNSLink.Upstreams: prefix -> upstream dial address
    Replacements,  \* DNSLink.Replacements: prefix -> replacement base
    CacheTTL,      \* DNSLink.CacheTTL
    proxies,       \* DNSLink.proxies: prefix -> provisioned reverse proxy
    provisioned,   \* Provision has returned nil
    cache,         \* DNSLink.cache (sync.Map): host -> cachedLookup
    now,           \* the wall clock read by time.Now()
    pc,            \* per request goroutine: its position in ServeHTTP/resolve
    req,           \* per goroutine: the request (r.Host, r.URL.Path on entry)
    sel,           \* per goroutine: resolve's locals namespace, identifier
    resp,          \* per goroutine: what ServeHTTP did with the request
    hist,          \* history of the cache and of the DNS calls, per host
    seen,          \* per goroutine: what it got from dnslinkpkg.Resolve
    bp             \* the path rewrite applied to drawn inputs (SpecPath)

vars == <<Upstreams, Replacements, CacheTTL, proxies, provisioned, cache, now,
          pc, req, sel, resp, hist, seen, bp>>

-----------------------------------------------------------------------------
(* Bounds of the model *)

\* number of clock ticks explored
MaxTime == 2
\* longest identifier and original path drawn for the path rewrite
MaxLen == 3

(* Program constants *)

\* 1 * time.Minute, in clock units of 30 seconds
Minute == 2

-----------------------------------------------------------------------------
(* Strings *)

Str(S, n) == UNION {[1..k -> S] : k \in 0..n}

\* strings.HasSuffix
HasSuffix(s, suffix) ==
    /\ Len(suffix) <= Len(s)
    /\ SubSeq(s, Len(s) - Len(suffix) + 1, Len(s)) = suffix

\* strings.HasPrefix
HasPrefix(s, prefix) ==
    /\ Len(prefix) <= Len(s)
    /\ SubSeq(s, 1, Len(prefix)) = prefix

\* strings.TrimPrefix
TrimPrefix(s, prefix) ==
    IF HasPrefix(s, prefix) THEN SubSeq(s, Len(prefix) + 1, Len(s)) ELSE s

Slash == <<"/">>
Empty == <<>>

Last(s) == s[Len(s)]

-----------------------------------------------------------------------------
(* The path rewrite of ServeHTTP *)

\* ServeHTTP: prefix := "/" + namespace
Prefix(namespace) == Slash \o namespace

\* ServeHTTP: base := prefix; a Replacements entry for the prefix, when the
\* map has one (whatever its value), replaces it.
Base(prefix, repl) ==
    IF prefix \in DOMAIN repl THEN repl[prefix] ELSE prefix

EnsureSlash_Never(s) == s

\* ServeHTTP: if !strings.HasSuffix(s, "/") { s += "/" }, done for base and
\* again for base + identifier.
EnsureSlash(s) ==
    IF HasSuffix(s, Slash) THEN s ELSE s \o Slash

RECURSIVE TrimAllLeading(_)
TrimAllLeading(s) ==
    IF HasPrefix(s, Slash) THEN TrimAllLeading(Tail(s)) ELSE s

CleanOriginal_TrimAll(originalPath) == TrimAllLeading(originalPath)

\* ServeHTTP: cleanOriginal := strings.TrimPrefix(originalPath, "/")
CleanOriginal(originalPath) == TrimPrefix(originalPath, Slash)

RECURSIVE TrimAllTrailing(_)
TrimAllTrailing(s) ==
    IF HasSuffix(s, Slash) THEN TrimAllTrailing(SubSeq(s, 1, Len(s) - 1)) ELSE s

NewPath_IdentifierTrimmed(prefix, identifier, repl, originalPath) ==
    EnsureSlash(EnsureSlash(Base(prefix, repl)) \o TrimAllTrailing(identifier))
        \o CleanOriginal(originalPath)

\* ServeHTTP: the path written to r.URL.Path on a match.
NewPath(prefix, identifier, repl, originalPath) ==
    LET base    == EnsureSlash(Base(prefix, repl))
        newPath == EnsureSlash(base \o identifier)
    IN  newPath \o CleanOriginal(originalPath)

(* The reference path builder buildPath that the tests call. Its code is    *)
(* not in the repository; RefPath is written from the specification's       *)
(* algorithm, steps 2 to 7, for the base that step 1 has chosen.            *)
RefPath(base0, identifier, originalPath) ==
    LET base  == IF HasSuffix(base0, Slash) THEN base0 ELSE base0 \o Slash
        ident == IF HasSuffix(identifier, Slash)
                 THEN SubSeq(identifier, 1, Len(identifier) - 1)
                 ELSE identifier
        cat   == base \o ident
        dir   == IF HasSuffix(cat, Slash) THEN cat ELSE cat \o Slash
        orig  == IF HasPrefix(originalPath, Slash) THEN Tail(originalPath)
                 ELSE originalPath
    IN  dir \o orig

-----------------------------------------------------------------------------
(* SpecPath: the path rewrite applied to inputs drawn from bounded sets *)

nsA  == <<"a">>
nsAB == <<"a", "b">>

PathNamespaces == {nsA, nsAB}
PathIdentifiers == Str({"/", "x"}, MaxLen)
PathOriginals == Str({"/", "y", "?"}, MaxLen)
\* replacement strings a configuration can hold for a prefix
PathReplacements == {Empty, <<"/", "b">>, <<"b">>, <<"/", "b", "/">>}
PathTables(prefix) ==
    {<<>>} \cup {(prefix :> r) : r \in PathReplacements}

BpIdle == [namespace |-> Empty, identifier |-> Empty, Replacements |-> <<>>,
           originalPath |-> Empty, newPath |-> Empty, done |-> FALSE]

PathInputs ==
    \E namespace \in PathNamespaces, identifier \in PathIdentifiers,
       originalPath \in PathOriginals :
      \E repl \in PathTables(Prefix(namespace)) :
        bp = [namespace |-> namespace, identifier |-> identifier,
              Replacements |-> repl, originalPath |-> originalPath,
              newPath |-> Empty, done |-> FALSE]

\* ServeHTTP, the match branch: r.URL.Path = newPath
Rewrite ==
    /\ ~bp.done
    /\ bp' = [bp EXCEPT
                !.newPath = NewPath(Prefix(bp.namespace), bp.identifier,
                                    bp.Replacements, bp.originalPath),
                !.done = TRUE]

-----------------------------------------------------------------------------
(* The handler: configuration, requests and DNS answers *)

Procs == {1, 2}

idX  == <<"x">>
idXs == <<"x", "/">>

\* Configurations as loaded from JSON or a Caddyfile, before Provision.
\* The second one has a replacement whose prefix has no upstream.
Configs ==
    { [Upstreams    |-> (Prefix(nsA) :> "u1") @@ (Prefix(nsAB) :> "u2"),
       Replacements |-> (Prefix(nsA) :> <<"/", "z">>),
       CacheTTL     |-> 0],
      [Upstreams    |-> (Prefix(nsA) :> "u1"),
       Replacements |-> (Prefix(nsAB) :> <<"/", "z">>),
       CacheTTL     |-> 1] }

\* r.Host of the requests: two names, one of them also with a port
RawHosts == {<<"h">>, <<"h", ":", "8">>, <<"g">>}
\* r.URL.Path of the requests
ReqPaths == {<<"/", "y">>}

\* result.Links of dnslinkpkg.Resolve: namespace -> entries (identifiers)
LinksSet ==
    { <<>>,
      (nsA :> <<idX>>),
      (nsA :> <<idX, idXs>>) @@ (nsAB :> <<idX>>),
      (nsAB :> <<idX>>) @@ (nsA :> <<>>) }

\* the names the requests resolve
HostNames == {<<"h">>, <<"g">>}

\* net.SplitHostPort for host strings without brackets: the port follows the
\* last colon; no colon, or a colon in the host part, is an error.
Colons(s) == {i \in 1..Len(s) : s[i] = ":"}
SplitHostPort(hostport) ==
    IF Colons(hostport) = {} THEN [err |-> "missing port", host |-> Empty]
    ELSE LET i == CHOOSE j \in Colons(hostport) : \A k \in Colons(hostport) : k <= j
         IN  IF Cardinality(Colons(hostport)) > 1
             THEN [err |-> "too many colons", host |-> Empty]
             ELSE [err |-> "nil", host |-> SubSeq(hostport, 1, i - 1)]

Host_KeepPort(r) == r.Host

\* ServeHTTP: host := r.Host; if h, _, err := net.SplitHostPort(host);
\* err == nil { host = h }
Host(r) ==
    LET hp == SplitHostPort(r.Host)
    IN  IF hp.err = "nil" THEN hp.host ELSE r.Host

\* history kept per host: when the present entry was stored (-1: no entry),
\* when dnslinkpkg.Resolve was last called (-1: never, or CacheTTL ago),
\* whether the cache had an entry when its last call failed ("no": no
\* failure since the last resolve began), and until when the last stored
\* NoLink entry is fresh (0: none, or over)
NoHist == [storedAt |-> -1, lastDns |-> -1, failed |-> "no", negUntil |-> 0]

\* what a request has seen of dnslinkpkg.Resolve: how the call ended, and
\* result.Links while resolve holds it (until it returns)
NoSeen == [dnsErr |-> "none", links |-> <<>>]

NoReq  == [Host |-> Empty, Path |-> Empty]
NoSel  == [namespace |-> Empty, identifier |-> Empty, err |-> "none"]
NoResp == [handler |-> "none", upstream |-> "", Path |-> Empty, err |-> "none"]

\* return next.ServeHTTP(w, r): the request goes on unchanged and the error
\* returned is the next handler's
NextHandler(r) ==
    [handler |-> "next", upstream |-> "", Path |-> r.Path, err |-> "downstream"]

ServeHTTP_Route_ErrorOnNoLink(r, namespace, identifier, err) ==
    IF err # "nil" \/ namespace = Empty
    THEN [handler |-> "none", upstream |-> "", Path |-> r.Path, err |-> "lookup"]
    ELSE LET prefix == Prefix(namespace)
         IN  IF prefix \in DOMAIN proxies
             THEN [handler  |-> "proxy",
                   upstream |-> proxies[prefix],
                   Path     |-> NewPath(prefix, identifier, Replacements, r.Path),
                   err      |-> "downstream"]
             ELSE NextHandler(r)

ServeHTTP_Route_LongestPrefix(r, namespace, identifier, err) ==
    IF err # "nil" \/ namespace = Empty THEN NextHandler(r)
    ELSE LET prefix  == Prefix(namespace)
             matches == {k \in DOMAIN proxies : HasPrefix(prefix, k)}
         IN  IF matches # {}
             THEN LET key == CHOOSE k \in matches :
                               \A m \in matches : Len(m) <= Len(k)
                  IN  [handler  |-> "proxy",
                       upstream |-> proxies[key],
                       Path     |-> NewPath(key, identifier, Replacements, r.Path),
                       err      |-> "downstream"]
             ELSE NextHandler(r)

ServeHTTP_Route_RewriteBeforeMatch(r, namespace, identifier, err) ==
    IF err # "nil" \/ namespace = Empty THEN NextHandler(r)
    ELSE LET prefix  == Prefix(namespace)
             newPath == NewPath(prefix, identifier, Replacements, r.Path)
         IN  IF prefix \in DOMAIN proxies
             THEN [handler  |-> "proxy",
                   upstream |-> proxies[prefix],
                   Path     |-> newPath,
                   err      |-> "downstream"]
             ELSE NextHandler([r EXCEPT !.Path = newPath])

ServeHTTP_Route_DropsUnmatched(r, namespace, identifier, err) ==
    IF err # "nil" THEN NextHandler(r)
    ELSE IF namespace = Empty THEN NextHandler(r)
    ELSE LET prefix == Prefix(namespace)
         IN  IF prefix \in DOMAIN proxies
             THEN [handler  |-> "proxy",
                   upstream |-> proxies[prefix],
                   Path     |-> NewPath(prefix, identifier, Replacements, r.Path),
                   err      |-> "downstream"]
             ELSE [handler |-> "none", upstream |-> "", Path |-> r.Path,
                   err |-> "nil"]

\* ServeHTTP after resolve has returned (namespace, identifier, err)
ServeHTTP_Route(r, namespace, identifier, err) ==
    IF err # "nil" THEN NextHandler(r)
    ELSE IF namespace = Empty THEN NextHandler(r)
    ELSE LET prefix == Prefix(namespace)
         IN  IF prefix \in DOMAIN proxies
             THEN [handler  |-> "proxy",
                   upstream |-> proxies[prefix],
                   Path     |-> NewPath(prefix, identifier, Replacements, r.Path),
                   err      |-> "downstream"]
             ELSE NextHandler(r)

\* resolve: the loop over result.Links. Go iterates a map in no fixed order,
\* so any namespace with at least one entry can be the one that is met first.
Selections(links) ==
    IF \E ns \in DOMAIN links : Len(links[ns]) > 0
    THEN {[namespace |-> ns, identifier |-> links[ns][1], err |-> "nil"] :
            ns \in {n \in DOMAIN links : Len(links[n]) > 0}}
    ELSE {[namespace |-> Empty, identifier |-> Empty, err |-> "nil"]}

\* cachedLookup
CachedLookup(namespace, identifier, expiresAt) ==
    [namespace |-> namespace, identifier |-> identifier, expiresAt |-> expiresAt]

\* sync.Map.Store
MapStore(m, key, value) ==
    [k \in DOMAIN m \cup {key} |-> IF k = key THEN value ELSE m[k]]

MapDelete_Clear(m, key) == <<>>

\* sync.Map.Delete
MapDelete(m, key) == [k \in DOMAIN m \ {key} |-> m[k]]

-----------------------------------------------------------------------------
(* Actions *)

cfgVars == <<Upstreams, Replacements, CacheTTL, proxies, provisioned>>

Provision_NoDefault ==
    /\ ~provisioned
    /\ provisioned' = TRUE
    /\ CacheTTL' = CacheTTL
    /\ proxies' = [prefix \in DOMAIN Upstreams |-> Upstreams[prefix]]
    /\ UNCHANGED <<Upstreams, Replacements, cache, now, pc, req, sel, resp,
                   hist, seen, bp>>

\* Provision: the default TTL and one reverse proxy per upstream
Provision ==
    /\ ~provisioned
    /\ provisioned' = TRUE
    /\ CacheTTL' = IF CacheTTL = 0 THEN Minute ELSE CacheTTL
    /\ proxies' = [prefix \in DOMAIN Upstreams |-> Upstreams[prefix]]
    /\ UNCHANGED <<Upstreams, Replacements, cache, now, pc, req, sel, resp,
                   hist, seen, bp>>

\* a request arrives at ServeHTTP
ServeHTTP_Enter(p) ==
    /\ provisioned
    /\ pc[p] = "idle"
    /\ \E host \in RawHosts, path \in ReqPaths :
         req' = [req EXCEPT ![p] = [Host |-> host, Path |-> path]]
    /\ pc' = [pc EXCEPT ![p] = "load"]
    /\ sel' = [sel EXCEPT ![p] = NoSel]
    /\ resp' = [resp EXCEPT ![p] = NoResp]
    /\ seen' = [seen EXCEPT ![p] = NoSeen]
    /\ UNCHANGED <<cfgVars, cache, now, hist, bp>>

\* resolve returns (r.namespace, r.identifier, r.err) and ServeHTTP finishes
Return(p, r) ==
    /\ sel' = [sel EXCEPT ![p] = r]
    /\ resp' = [resp EXCEPT ![p] =
                  ServeHTTP_Route(req[p], r.namespace, r.identifier, r.err)]
    /\ pc' = [pc EXCEPT ![p] = "idle"]

resolve_Load_AfterForBefore(p) ==
    /\ pc[p] = "load"
    /\ LET host == Host(req[p])
       IN  IF host \in DOMAIN cache /\ cache[host].expiresAt < now
           THEN Return(p, [namespace  |-> cache[host].namespace,
                           identifier |-> cache[host].identifier,
                           err        |-> "nil"])
           ELSE /\ pc' = [pc EXCEPT ![p] =
                            IF host \in DOMAIN cache THEN "delete" ELSE "lookup"]
                /\ UNCHANGED <<sel, resp>>
    /\ hist' = [hist EXCEPT ![Host(req[p])].failed = "no"]
    /\ UNCHANGED <<cfgVars, cache, now, req, seen, bp>>

\* resolve: d.cache.Load(host) and the freshness test
resolve_Load(p) ==
    /\ pc[p] = "load"
    /\ LET host == Host(req[p])
       IN  IF host \in DOMAIN cache /\ now < cache[host].expiresAt
           THEN Return(p, [namespace  |-> cache[host].namespace,
                           identifier |-> cache[host].identifier,
                           err        |-> "nil"])
           ELSE /\ pc' = [pc EXCEPT ![p] =
                            IF host \in DOMAIN cache THEN "delete" ELSE "lookup"]
                /\ UNCHANGED <<sel, resp>>
    /\ hist' = [hist EXCEPT ![Host(req[p])].failed = "no"]
    /\ UNCHANGED <<cfgVars, cache, now, req, seen, bp>>

\* resolve: d.cache.Delete(host), after an expired entry was loaded
resolve_Delete(p) ==
    /\ pc[p] = "delete"
    /\ cache' = MapDelete(cache, Host(req[p]))
    /\ pc' = [pc EXCEPT ![p] = "lookup"]
    /\ hist' = [hist EXCEPT ![Host(req[p])].storedAt = -1]
    /\ UNCHANGED <<cfgVars, now, req, sel, resp, seen, bp>>

\* the history of a call of dnslinkpkg.Resolve(host)
DnsCalled(host, failed) ==
    [hist EXCEPT ![host].lastDns = now,
                 ![host].failed = IF ~failed THEN @
                                  ELSE IF host \in DOMAIN cache THEN "stored"
                                  ELSE "empty"]

\* the history of d.cache.Store(host, entry)
Stored(h0, host, entry) ==
    [h0 EXCEPT ![host].storedAt = now,
               ![host].failed = IF @ = "empty" THEN "stored" ELSE @,
               ![host].negUntil = IF entry.namespace = Empty
                                  THEN entry.expiresAt ELSE @]

resolve_Lookup_CachesFailure(p) ==
    /\ pc[p] = "lookup"
    /\ \/ /\ seen' = [seen EXCEPT ![p].dnsErr = "err"]
          /\ Return(p, [namespace |-> Empty, identifier |-> Empty, err |-> "nil"])
          /\ cache' = MapStore(cache, Host(req[p]),
                               CachedLookup(Empty, Empty, now + CacheTTL))
          /\ hist' = Stored(DnsCalled(Host(req[p]), TRUE), Host(req[p]),
                            CachedLookup(Empty, Empty, now + CacheTTL))
       \/ /\ \E links \in LinksSet :
               /\ seen' = [seen EXCEPT ![p] = [dnsErr |-> "nil",
                                               links |-> links]]
               /\ \E s \in Selections(links) : sel' = [sel EXCEPT ![p] = s]
          /\ pc' = [pc EXCEPT ![p] = "store"]
          /\ hist' = DnsCalled(Host(req[p]), FALSE)
          /\ UNCHANGED <<resp, cache>>
    /\ UNCHANGED <<cfgVars, now, req, bp>>

resolve_Lookup_NoLinkNotCached(p) ==
    /\ pc[p] = "lookup"
    /\ \/ /\ seen' = [seen EXCEPT ![p].dnsErr = "err"]
          /\ Return(p, [namespace |-> Empty, identifier |-> Empty, err |-> "nil"])
          /\ hist' = DnsCalled(Host(req[p]), TRUE)
       \/ /\ hist' = DnsCalled(Host(req[p]), FALSE)
          /\ \E links \in LinksSet : \E s \in Selections(links) :
               IF s.namespace = Empty
               THEN /\ seen' = [seen EXCEPT ![p].dnsErr = "nil"]
                    /\ Return(p, s)
               ELSE /\ seen' = [seen EXCEPT ![p] = [dnsErr |-> "nil",
                                                    links |-> links]]
                    /\ sel' = [sel EXCEPT ![p] = s]
                    /\ pc' = [pc EXCEPT ![p] = "store"]
                    /\ UNCHANGED resp
    /\ UNCHANGED <<cfgVars, cache, now, req, bp>>

\* resolve: dnslinkpkg.Resolve(host) fails, or returns links of which one is
\* selected
resolve_Lookup(p) ==
    /\ pc[p] = "lookup"
    /\ \/ /\ seen' = [seen EXCEPT ![p].dnsErr = "err"]
          /\ Return(p, [namespace |-> Empty, identifier |-> Empty, err |-> "nil"])
          /\ hist' = DnsCalled(Host(req[p]), TRUE)
       \/ /\ \E links \in LinksSet :
               /\ seen' = [seen EXCEPT ![p] = [dnsErr |-> "nil",
                                               links |-> links]]
               /\ \E s \in Selections(links) : sel' = [sel EXCEPT ![p] = s]
          /\ pc' = [pc EXCEPT ![p] = "store"]
          /\ hist' = DnsCalled(Host(req[p]), FALSE)
          /\ UNCHANGED resp
    /\ UNCHANGED <<cfgVars, cache, now, req, bp>>

resolve_Store_ExpiresNow(p) ==
    /\ pc[p] = "store"
    /\ cache' = MapStore(cache, Host(req[p]),
                         CachedLookup(sel[p].namespace, sel[p].identifier, now))
    /\ Return(p, sel[p])
    /\ hist' = Stored(hist, Host(req[p]), cache'[Host(req[p])])
    /\ seen' = [seen EXCEPT ![p].links = <<>>]
    /\ UNCHANGED <<cfgVars, now, req, bp>>

resolve_Store_ExpiresFromLookup(p) ==
    /\ pc[p] = "store"
    /\ cache' = MapStore(cache, Host(req[p]),
                         CachedLookup(sel[p].namespace, sel[p].identifier,
                                      hist[Host(req[p])].lastDns + CacheTTL))
    /\ Return(p, sel[p])
    /\ hist' = Stored(hist, Host(req[p]), cache'[Host(req[p])])
    /\ seen' = [seen EXCEPT ![p].links = <<>>]
    /\ UNCHANGED <<cfgVars, now, req, bp>>

resolve_Store_ReturnsStored(p) ==
    /\ pc[p] = "store"
    /\ LET host == Host(req[p])
       IN  IF host \in DOMAIN cache
           THEN /\ cache' = cache
                /\ hist' = hist
                /\ Return(p, [namespace  |-> cache[host].namespace,
                              identifier |-> cache[host].identifier,
                              err        |-> "nil"])
           ELSE /\ cache' = MapStore(cache, host,
                                     CachedLookup(sel[p].namespace,
                                                  sel[p].identifier,
                                                  now + CacheTTL))
                /\ hist' = Stored(hist, host, cache'[host])
                /\ Return(p, sel[p])
    /\ seen' = [seen EXCEPT ![p].links = <<>>]
    /\ UNCHANGED <<cfgVars, now, req, bp>>

\* resolve: d.cache.Store(host, cachedLookup{...}) and the return
resolve_Store(p) ==
    /\ pc[p] = "store"
    /\ cache' = MapStore(cache, Host(req[p]),
                         CachedLookup(sel[p].namespace, sel[p].identifier,
                                      now + CacheTTL))
    /\ Return(p, sel[p])
    /\ hist' = Stored(hist, Host(req[p]), cache'[Host(req[p])])
    /\ seen' = [seen EXCEPT ![p].links = <<>>]
    /\ UNCHANGED <<cfgVars, now, req, bp>>

\* what the history of a host still says at time t: a DNS call and a NoLink
\* entry are remembered for CacheTTL
Forget(hh, t) ==
    [hh EXCEPT !.lastDns = IF @ >= 0 /\ @ + CacheTTL <= t THEN -1 ELSE @,
               !.negUntil = IF @ <= t THEN 0 ELSE @]

\* time passes
Tick ==
    /\ now < MaxTime
    /\ now' = now + 1
    /\ hist' = [h \in HostNames |-> Forget(hist[h], now')]
    /\ UNCHANGED <<cfgVars, cache, pc, req, sel, resp, seen, bp>>

-----------------------------------------------------------------------------
(* Specifications *)

mainVars == <<Upstreams, Replacements, CacheTTL, proxies, provisioned, cache,
              now, pc, req, sel, resp, hist, seen>>

InitHandler(c) ==
    /\ Upstreams = c.Upstreams
    /\ Replacements = c.Replacements
    /\ CacheTTL = c.CacheTTL
    /\ proxies = <<>>
    /\ provisioned = FALSE
    /\ cache = <<>>
    /\ now = 0
    /\ pc = [p \in Procs |-> "idle"]
    /\ req = [p \in Procs |-> NoReq]
    /\ sel = [p \in Procs |-> NoSel]
    /\ resp = [p \in Procs |-> NoResp]
    /\ hist = [h \in HostNames |-> NoHist]
    /\ seen = [p \in Procs |-> NoSeen]

Init ==
    /\ \E c \in Configs : InitHandler(c)
    /\ bp = BpIdle

Next ==
    \/ Provision
    \/ \E p \in Procs : ServeHTTP_Enter(p)
    \/ \E p \in Procs : resolve_Load(p)
    \/ \E p \in Procs : resolve_Delete(p)
    \/ \E p \in Procs : resolve_Lookup(p)
    \/ \E p \in Procs : resolve_Store(p)
    \/ Tick

Spec == Init /\ [][Next]_vars

NextPath == Rewrite /\ UNCHANGED mainVars

InitPath ==
    /\ PathInputs
    /\ InitHandler([Upstreams |-> <<>>, Replacements |-> <<>>, CacheTTL |-> 0])

SpecPath == InitPath /\ [][NextPath]_vars

-----------------------------------------------------------------------------
(* Claims about the path rewrite, checked under SpecPath *)

BpPrefix == Prefix(bp.namespace)
BpHasEntry == BpPrefix \in DOMAIN bp.Replacements
BpBase == IF BpHasEntry THEN bp.Replacements[BpPrefix] ELSE BpPrefix
\* the original path without its first character when that is a slash
BpTail ==
    IF bp.originalPath # Empty /\ Head(bp.originalPath) = "/"
    THEN Tail(bp.originalPath) ELSE bp.originalPath

C7_EmptyReplacementUsesPrefix ==
    bp.done =>
      IF ~BpHasEntry \/ BpBase = Empty
      THEN HasPrefix(bp.newPath, BpPrefix \o Slash)
      ELSE HasPrefix(bp.newPath, BpBase)

C9_OriginalPathVerbatim ==
    bp.done =>
      LET dir == NewPath(BpPrefix, bp.identifier, bp.Replacements, Empty)
      IN  /\ dir # Empty /\ Last(dir) = "/"
          /\ bp.newPath = dir \o BpTail
          /\ Len(BpTail) >= Len(bp.originalPath) - 1
          /\ bp.originalPath \in {Empty, Slash} => bp.newPath = dir

C9_Witness ==
    /\ bp.done
    /\ bp.originalPath = <<"/", "/", "?">>
    /\ bp.identifier = <<"x">>
    /\ bp.newPath = <<"/", "a", "/", "x", "/", "/", "?">>

-----------------------------------------------------------------------------
(* Claims about the handler, checked under Spec *)

\* the host goroutine p resolves
HostOf(p) == Host(req[p])

\* p's step is the cache load, the DNS call, the failing DNS call, the store
LoadStep(p)   == pc[p] = "load" /\ pc'[p] # "load"
LookupStep(p) == pc[p] = "lookup" /\ pc'[p] # "lookup"
FailStep(p)   == LookupStep(p) /\ seen'[p].dnsErr = "err"
StoreStep(p)  == pc[p] = "store" /\ pc'[p] # "store"

\* p's request is over
Served(p) == pc[p] = "idle" /\ resp[p] # NoResp
\* p's request was answered from the cache: over without a DNS call
ServedFromCache(p) == Served(p) /\ seen[p].dnsErr = "none"

\* C1: a resolve that loads an entry whose expiresAt is later than the
\* current time returns that entry's namespace and identifier in that same
\* step: it never reaches the DNS call, and the cache is left as it was.
C1_FreshHitReturnsEntry ==
    [][\A p \in Procs :
         (LoadStep(p) /\ HostOf(p) \in DOMAIN cache
                      /\ now < cache[HostOf(p)].expiresAt)
           => /\ pc'[p] = "idle"
              /\ sel'[p] = [namespace  |-> cache[HostOf(p)].namespace,
                            identifier |-> cache[HostOf(p)].identifier,
                            err        |-> "nil"]
              /\ seen'[p].dnsErr = "none"
              /\ hist'[HostOf(p)].lastDns = hist[HostOf(p)].lastDns
              /\ cache' = cache]_vars

C1_Witness ==
    \E p \in Procs :
      /\ ServedFromCache(p)
      /\ HostOf(p) \in DOMAIN cache
      /\ sel[p].namespace = nsA /\ sel[p].identifier = idX
      /\ cache[HostOf(p)].namespace = nsA
      /\ now < cache[HostOf(p)].expiresAt

\* C2: whatever the lookup gave (a failure, no link, a namespace without an
\* upstream), ServeHTTP hands the request to the next handler unchanged, and
\* the only error it ever returns is the one of the handler it delegated to.
C2_FailOpen ==
    \A p \in Procs :
      /\ resp[p].err \in {"none", "downstream"}
      /\ Served(p) =>
           /\ resp[p].err = "downstream"
           /\ sel[p].err = "nil"
           /\ seen[p].dnsErr = "err" => sel[p].namespace = Empty
           /\ (\/ seen[p].dnsErr = "err"
               \/ sel[p].namespace = Empty
               \/ Prefix(sel[p].namespace) \notin DOMAIN Upstreams)
                => /\ resp[p].handler = "next"
                   /\ resp[p].Path = req[p].Path

C2_Witness ==
    \E p \in Procs :
      /\ Served(p)
      /\ seen[p].dnsErr = "err"
      /\ resp[p].handler = "next"

C4_AtMostOneLookupPerTTL ==
    [][\A p \in Procs :
         (/\ LoadStep(p)
          /\ \A q \in Procs \ {p} : pc[q] = "idle"
          /\ hist[HostOf(p)].lastDns >= 0
          /\ now < hist[HostOf(p)].lastDns + CacheTTL)
           => pc'[p] = "idle"]_vars

\* C4, amended: a resolve that finds in the cache an entry stored less than
\* CacheTTL ago makes no DNS lookup, so the call that stored it and this one
\* make one lookup in total; CacheTTL after the store the entry is expired,
\* it is deleted and a new lookup is made. (A failed lookup stores nothing.)
C4_OneLookupWhileEntryKept ==
    [][\A p \in Procs :
         (LoadStep(p) /\ HostOf(p) \in DOMAIN cache)
           => IF now < hist[HostOf(p)].storedAt + CacheTTL
              THEN /\ pc'[p] = "idle"
                   /\ seen'[p].dnsErr = "none"
                   /\ hist'[HostOf(p)].lastDns = hist[HostOf(p)].lastDns
              ELSE pc'[p] = "delete"]_vars

C4_Witness ==
    \E p \in Procs, q \in Procs :
      /\ p # q
      /\ HostOf(p) = HostOf(q)
      /\ Served(q) /\ seen[q].dnsErr = "nil"
      /\ ServedFromCache(p)
      /\ sel[p] = sel[q] /\ sel[p].namespace = nsAB
      /\ hist[HostOf(p)].storedAt >= 0
      /\ now > hist[HostOf(p)].storedAt

\* C5, as stated: a failed lookup stores nothing, and the next resolve of
\* the host goes to the DNS again.
C5_NextResolveLooksUp ==
    [][\A p \in Procs :
         /\ FailStep(p) => cache' = cache
         /\ (LoadStep(p) /\ hist[HostOf(p)].failed # "no")
              => pc'[p] \in {"lookup", "delete"}]_vars

\* C5, amended: a failed lookup leaves the cache as it is and resolve
\* returns empty; unless a resolve of another request has stored an entry
\* for the host, the next resolve of the host finds none and goes to the DNS.
C5_FailureNotCached ==
    [][\A p \in Procs :
         /\ FailStep(p)
              => /\ cache' = cache
                 /\ pc'[p] = "idle"
                 /\ sel'[p] = [namespace |-> Empty, identifier |-> Empty,
                               err |-> "nil"]
         /\ (LoadStep(p) /\ hist[HostOf(p)].failed = "empty")
              => /\ HostOf(p) \notin DOMAIN cache
                 /\ pc'[p] = "lookup"]_vars

C5_Witness ==
    \E p \in Procs, q \in Procs :
      /\ p # q
      /\ HostOf(p) = HostOf(q)
      /\ Served(p) /\ seen[p].dnsErr = "err"
      /\ hist[HostOf(p)].failed = "empty"
      /\ pc[q] = "load"

\* C10: a request goes to a proxy exactly when resolve gave a non-empty
\* namespace and "/" + namespace itself is a key of Upstreams, and then to
\* the upstream of that key; otherwise it goes to the next handler with its
\* path unchanged, also when only Replacements has the prefix or when a
\* shorter prefix has an upstream.
C10_ExactPrefixMatch ==
    \A p \in Procs :
      Served(p) =>
        LET prefix == Slash \o sel[p].namespace
        IN  IF sel[p].namespace # Empty /\ prefix \in DOMAIN Upstreams
            THEN /\ resp[p].handler = "proxy"
                 /\ resp[p].upstream = Upstreams[prefix]
            ELSE /\ resp[p].handler = "next"
                 /\ resp[p].upstream = ""
                 /\ resp[p].Path = req[p].Path

C10_Witness ==
    \E p \in Procs, q \in Procs :
      /\ Served(p) /\ Served(q)
      /\ sel[p].namespace = nsA
      /\ resp[p].handler = "proxy" /\ resp[p].upstream = "u1"
      /\ sel[q].namespace = nsAB
      /\ Prefix(nsAB) \in DOMAIN Replacements
      /\ Prefix(nsAB) \notin DOMAIN Upstreams
      /\ resp[q].handler = "next"

\* the step of p that deletes the entry it loaded
DeleteStep(p) == pc[p] = "delete" /\ pc'[p] # "delete"

\* a request host without its port: what stands before the first colon
NameOf(hostport) ==
    IF \E i \in 1..Len(hostport) : hostport[i] = ":"
    THEN SubSeq(hostport, 1,
                (CHOOSE i \in 1..Len(hostport) :
                   /\ hostport[i] = ":"
                   /\ \A j \in 1..(i - 1) : hostport[j] # ":") - 1)
    ELSE hostport

\* C11: the port is stripped before resolution. No cache key holds a colon;
\* a request for "h:port" loads, deletes, looks up and stores under "h", so
\* it is answered from the entry a request for "h" stored and routed as that
\* request is.
C11_PortStripped ==
    [][/\ \A k \in DOMAIN cache' : \A i \in 1..Len(k) : k[i] # ":"
       /\ \A p \in Procs :
            LET h == NameOf(req[p].Host)
            IN  /\ LoadStep(p) =>
                     IF h \in DOMAIN cache /\ now < cache[h].expiresAt
                     THEN /\ pc'[p] = "idle"
                          /\ sel'[p].namespace = cache[h].namespace
                          /\ sel'[p].identifier = cache[h].identifier
                          /\ resp'[p] = ServeHTTP_Route(
                                          [Host |-> h, Path |-> req[p].Path],
                                          cache[h].namespace,
                                          cache[h].identifier, "nil")
                     ELSE pc'[p] = IF h \in DOMAIN cache THEN "delete"
                                   ELSE "lookup"
                /\ DeleteStep(p) => h \notin DOMAIN cache'
                /\ LookupStep(p) => hist'[h].lastDns = now
                /\ StoreStep(p) =>
                     /\ h \in DOMAIN cache'
                     /\ cache'[h].namespace = sel[p].namespace
                     /\ cache'[h].identifier = sel[p].identifier]_vars

C11_Witness ==
    \E p \in Procs, q \in Procs :
      /\ req[p].Host = <<"h", ":", "8">>
      /\ req[q].Host = <<"h">>
      /\ Served(q) /\ seen[q].dnsErr = "nil"
      /\ ServedFromCache(p)
      /\ DOMAIN cache = {<<"h">>}
      /\ sel[p] = sel[q] /\ sel[p].namespace = nsA
      /\ resp[p] = resp[q] /\ resp[p].handler = "proxy"

\* the outcome of p's request: Matched when resolve gave a namespace whose
\* prefix has a proxy, NoMatch otherwise
Matched(p) ==
    /\ sel[p].err = "nil"
    /\ sel[p].namespace # Empty
    /\ Prefix(sel[p].namespace) \in DOMAIN proxies

\* C12: while a request is being resolved its path is not touched; on every
\* NoMatch outcome it reaches the next handler with the path it came with;
\* a path that differs from the request's is seen only by a proxy, and it is
\* the rewritten path of the Matched outcome.
C12_PathUnchangedOnNoMatch ==
    \A p \in Procs :
      /\ pc[p] # "idle" => resp[p] = NoResp
      /\ Served(p) =>
           /\ ~Matched(p) => /\ resp[p].handler = "next"
                             /\ resp[p].Path = req[p].Path
           /\ resp[p].handler = "next" => resp[p].Path = req[p].Path
           /\ resp[p].Path # req[p].Path =>
                /\ Matched(p)
                /\ resp[p].handler = "proxy"
                /\ resp[p].Path = NewPath(Prefix(sel[p].namespace),
                                          sel[p].identifier, Replacements,
                                          req[p].Path)

C12_Witness ==
    \E p \in Procs, q \in Procs :
      /\ Served(p) /\ Served(q)
      /\ sel[p].namespace = nsAB /\ ~Matched(p)
      /\ resp[p].handler = "next" /\ resp[p].Path = <<"/", "y">>
      /\ Matched(q)
      /\ resp[q].handler = "proxy"
      /\ resp[q].Path = <<"/", "a", "/", "x", "/", "y">>

\* C13, as stated: under every interleaving, the entry a resolve call
\* deletes is expired: a delete never removes an entry whose expiresAt is
\* later than the current time.
C13_DeleteOnlyExpired ==
    [][\A p \in Procs :
         (DeleteStep(p) /\ HostOf(p) \in DOMAIN cache)
           => ~(now < cache[HostOf(p)].expiresAt)]_vars

\* C14, as stated: when dnslinkpkg.Resolve fails, resolve returns an error
\* that is not nil, and when it reports no link resolve returns no error, so
\* the two are told apart by the error.
C14_FailureReturnsError ==
    \A p \in Procs :
      Served(p) =>
        /\ seen[p].dnsErr = "err" => sel[p].err # "nil"
        /\ (seen[p].dnsErr = "nil" /\ sel[p].namespace = Empty)
             => sel[p].err = "nil"

\* C15: the store writes expiresAt = the clock at the store + CacheTTL,
\* however long ago the request began or the DNS was asked, so every entry
\* in the cache expires CacheTTL after it was written; a loaded entry is
\* returned exactly when the clock is strictly before its expiresAt.
C15_ExpiryFromWriteClock ==
    [][/\ \A p \in Procs :
            /\ StoreStep(p) =>
                 /\ HostOf(p) \in DOMAIN cache'
                 /\ cache'[HostOf(p)].expiresAt = now + CacheTTL
            /\ (LoadStep(p) /\ HostOf(p) \in DOMAIN cache) =>
                 (pc'[p] = "idle" <=> now < cache[HostOf(p)].expiresAt)
       /\ \A h \in DOMAIN cache' :
            cache'[h].expiresAt = hist'[h].storedAt + CacheTTL]_vars

\* an entry written after the clock moved on since the DNS was asked, by the
\* only request there has been
C15_Witness ==
    \E p \in Procs :
      /\ Served(p) /\ seen[p].dnsErr = "nil"
      /\ \A q \in Procs \ {p} : req[q] = NoReq
      /\ HostOf(p) \in DOMAIN cache
      /\ hist[HostOf(p)].lastDns >= 0
      /\ hist[HostOf(p)].lastDns < now
      /\ hist[HostOf(p)].storedAt = now
      /\ cache[HostOf(p)].expiresAt = now + CacheTTL

\* C16, as stated: the namespace resolve selects has an entry, the
\* identifier is that namespace's first one, and the selection is a function
\* of the lookup result: two calls that got the same result.Links have
\* selected the same namespace and identifier.
C16_SelectionDeterministic ==
    \A p \in Procs, q \in Procs :
      /\ (pc[p] = "store" /\ sel[p].namespace # Empty) =>
           /\ sel[p].namespace \in DOMAIN seen[p].links
           /\ Len(seen[p].links[sel[p].namespace]) > 0
           /\ sel[p].identifier = seen[p].links[sel[p].namespace][1]
      /\ (pc[p] = "store" /\ pc[q] = "store"
                          /\ seen[p].links = seen[q].links) =>
           /\ sel[p].namespace = sel[q].namespace
           /\ sel[p].identifier = sel[q].identifier

\* C17: a resolve that finds no entry goes on to its own DNS call whatever
\* the other requests are doing (no step waits for another request); the
\* store writes this call's own selection and the call returns it, routed
\* as such; and when two requests for one host have both looked up and
\* stored, the cache has the host's entry and it is the namespace and
\* identifier of one of the two.
C17_ConcurrentColdLookups ==
    [][\A p \in Procs :
         /\ (LoadStep(p) /\ HostOf(p) \notin DOMAIN cache)
              => pc'[p] = "lookup"
         /\ StoreStep(p) =>
              /\ pc'[p] = "idle"
              /\ sel'[p] = sel[p]
              /\ resp'[p] = ServeHTTP_Route(req[p], sel[p].namespace,
                                            sel[p].identifier, "nil")
              /\ cache'[HostOf(p)].namespace = sel[p].namespace
              /\ cache'[HostOf(p)].identifier = sel[p].identifier
         /\ \A q \in Procs \ {p} :
              (/\ pc'[p] = "idle" /\ seen'[p].dnsErr = "nil"
               /\ pc'[q] = "idle" /\ seen'[q].dnsErr = "nil"
               /\ Host(req'[p]) = Host(req'[q]))
                => /\ Host(req'[p]) \in DOMAIN cache'
                   /\ \E r \in {p, q} :
                        /\ cache'[Host(req'[p])].namespace = sel'[r].namespace
                        /\ cache'[Host(req'[p])].identifier = sel'[r].identifier
      ]_vars

\* two requests met a cold cache at the same time (at clock 0 no entry can
\* have expired), got different answers and stored them one after the other
C17_Witness ==
    \E p \in Procs, q \in Procs :
      /\ p # q
      /\ now = 0
      /\ HostOf(p) = HostOf(q)
      /\ Served(p) /\ seen[p].dnsErr = "nil"
      /\ Served(q) /\ seen[q].dnsErr = "nil"
      /\ sel[p].namespace = nsA /\ sel[q].namespace = nsAB
      /\ resp[p].upstream = "u1" /\ resp[q].upstream = "u2"
      /\ DOMAIN cache = {HostOf(p)}
      /\ cache[HostOf(p)].namespace = nsAB

\* the cache_ttl the configuration was loaded with
ConfiguredTTL ==
    (CHOOSE c \in Configs : c.Upstreams = Upstreams).CacheTTL

\* C18: once Provision has run, CacheTTL is one minute if the configuration
\* had none (zero) and the configured value otherwise, it does not change
\* any more, and every entry in the cache expires that long after the clock
\* value at which it was written.
C18_EffectiveTTL ==
    provisioned =>
      LET ttl == IF ConfiguredTTL = 0 THEN Minute ELSE ConfiguredTTL
      IN  /\ CacheTTL = ttl
          /\ \A h \in DOMAIN cache :
               /\ hist[h].storedAt >= 0
               /\ cache[h].expiresAt - hist[h].storedAt = ttl

C18_Witness ==
    /\ provisioned
    /\ ConfiguredTTL = 0
    /\ CacheTTL = Minute
    /\ \E h \in DOMAIN cache :
         /\ hist[h].storedAt = 0
         /\ cache[h].expiresAt = Minute
         /\ now = 1
         /\ \E p \in Procs : ServedFromCache(p) /\ HostOf(p) = h

\* the step in which p's resolve returns and ServeHTTP finishes
EndStep(p) == pc[p] # "idle" /\ pc'[p] = "idle"

\* C19: a request is handed over in the step in which its resolve returns
\* and in no other: before that step nothing has been called, in it exactly
\* one of the next handler and a proxy is called (the proxy of one
\* upstream), and afterwards the record of the call changes only when the
\* goroutine takes a new request. A DNS call that returns either ends the
\* request at once (failure) or is followed by the store, which ends it.
C19_OneHandoff ==
    [][\A p \in Procs :
         /\ resp'[p] # resp[p] =>
              \/ EndStep(p)
              \/ pc[p] = "idle" /\ pc'[p] = "load" /\ resp'[p] = NoResp
         /\ EndStep(p) =>
              /\ resp[p] = NoResp
              /\ resp'[p].handler \in {"next", "proxy"}
              /\ resp'[p].handler = "proxy" <=>
                   \E k \in DOMAIN Upstreams : resp'[p].upstream = Upstreams[k]
              /\ resp'[p].handler = "next" <=> resp'[p].upstream = ""
         /\ LookupStep(p) =>
              \/ EndStep(p)
              \/ pc'[p] = "store" /\ resp'[p] = NoResp
         /\ StoreStep(p) => EndStep(p)]_vars

C19_Witness ==
    \E p \in Procs, q \in Procs :
      /\ Served(p) /\ seen[p].dnsErr = "nil"
      /\ resp[p].handler = "proxy" /\ resp[p].upstream = "u2"
      /\ Served(q) /\ seen[q].dnsErr = "err"
      /\ resp[q].handler = "next" /\ resp[q].upstream = ""

\* the cache has another entry, or none, for host h after the step
EntryChanged(h) ==
    \/ (h \in DOMAIN cache) # (h \in DOMAIN cache')
    \/ h \in DOMAIN cache /\ h \in DOMAIN cache' /\ cache'[h] # cache[h]

\* C20: the upstream and replacement tables never change, and no step of a
\* request changes the proxies or the TTL; the cache changes only in a
\* delete or a store of some request and only under that request's host
\* without its port, every other host's entry staying as it is; the load
\* and the DNS call leave the whole cache alone, and what a load returns is
\* its own host's entry.
C20_OnlyOwnEntry ==
    [][/\ Upstreams' = Upstreams
       /\ Replacements' = Replacements
       /\ (\E p \in Procs : pc'[p] # pc[p]) =>
            /\ proxies' = proxies
            /\ CacheTTL' = CacheTTL
       /\ \A h \in DOMAIN cache \cup DOMAIN cache' :
            EntryChanged(h) =>
              \E p \in Procs : /\ DeleteStep(p) \/ StoreStep(p)
                               /\ NameOf(req[p].Host) = h
       /\ \A p \in Procs :
            /\ (LoadStep(p) \/ LookupStep(p)) => cache' = cache
            /\ (LoadStep(p) /\ pc'[p] = "idle") =>
                 /\ NameOf(req[p].Host) \in DOMAIN cache
                 /\ sel'[p].namespace = cache[NameOf(req[p].Host)].namespace
                 /\ sel'[p].identifier = cache[NameOf(req[p].Host)].identifier
      ]_vars

\* a request has just replaced the entry of "h" with another one while the
\* entry of "g", written earlier, is still the one that was stored
C20_Witness ==
    \E p \in Procs :
      /\ Served(p) /\ seen[p].dnsErr = "nil"
      /\ HostOf(p) = <<"h">>
      /\ DOMAIN cache = {<<"h">>, <<"g">>}
      /\ hist[<<"g">>].storedAt = 0
      /\ hist[<<"h">>].storedAt = now /\ now = 2
      /\ cache[<<"g">>].namespace = nsA
      /\ cache[<<"h">>].namespace = nsAB
      /\ cache[<<"g">>].expiresAt = CacheTTL

====
